---- MODULE Spec2Model ----
(***************************************************************************)
(* Topic registry, bounded topic queues and MQTT dispatch engine of the    *)
(* IoCloud-MQTT firmware (lib/GlobalConfig, lib/MQTT, lib/App,             *)
(* lib/TemperatureSensor).                                                 *)
(*                                                                         *)
(* Strings are sequences of one-character strings; a C struct is the       *)
(* sequence of its bytes, so that a queue copy of item-size bytes is what  *)
(* the FreeRTOS queue does with it.                                        *)
(***************************************************************************)
EXTENDS Integers, Sequences, FiniteSets, TLC

(***************************************************************************)
(* Program constants                                                       *)
(***************************************************************************)
MQTT_MAXIMUM_TOPIC_LENTGH == 64
MQTT_MAXIMUM_TOPIC_COUNT == 10

ESP_OK == "ESP_OK"
ESP_ERR_INVALID_ARG == "ESP_ERR_INVALID_ARG"
ESP_ERR_NO_MEM == "ESP_ERR_NO_MEM"
\* a NULL char pointer, which is no string, and a NULL QueueHandle_t
NULL_NAME == <<"NULL">>
NULL == 0

\* data_info.direction
PUBLISH == 0
SUBSCRIBE == 1

\* reader_mode_et
READ == 0
WRITE == 1

MIFARE_DATA_BLOCKS_PER_SECTOR == 3
MIFARE_TRAILER_BLOCK == 3
MIFARE_BLOCK_SIZE == 16

\* sizeof(generic_sensor_data_st): a 4-byte enum and a 4-byte union
ITEM_SIZE == 8
\* sizeof(temperature_data_st): two floats
SENSOR_ITEM_SIZE == 8

(***************************************************************************)
(* Bounds of the model                                                     *)
(***************************************************************************)
\* slots of every queue (uint8_t const MAX_QUEUE_SIZE = 100 in the firmware,
\* and the literal 100 of sensor_data_queue)
MAX_QUEUE_SIZE == 2
\* topics registered by a start-up that registers in any order
MaxRoutingTopics == 4
\* registration calls made during one start-up
MaxCalls == 12
\* registration calls of one start-up that fail before the registry is full
MaxFailedCalls == 1

(***************************************************************************)
(* Strings                                                                 *)
(***************************************************************************)
Min(a, b) == IF a < b THEN a ELSE b

Chars(n, c) == [i \in 1..n |-> c]

\* snprintf(buf, size, "%s", s): at most size-1 characters are stored, the
\* return value is the length the full output would have had.
snprintf_s_mut(size, s) ==
    [stored |-> SubSeq(s, 1, Min(Len(s), size)), ret |-> Min(Len(s), size - 1)]

snprintf_s(size, s) ==
    [stored |-> SubSeq(s, 1, Min(Len(s), size - 1)), ret |-> Len(s)]

response_read_name == <<"r","e","s","p","o","n","s","e","_","r","e","a","d">>
response_write_name == <<"r","e","s","p","o","n","s","e","_","w","r","i","t","e">>
command_write_name == <<"c","o","m","m","a","n","d","_","w","r","i","t","e">>
command_config_name == <<"c","o","m","m","a","n","d","_","c","o","n","f","i","g">>

\* the longest name that fits char topic[64], and two that do not
NameMax == Chars(MQTT_MAXIMUM_TOPIC_LENTGH - 1, "n")
NameOver == Chars(MQTT_MAXIMUM_TOPIC_LENTGH, "n")
NameOver2 == Chars(MQTT_MAXIMUM_TOPIC_LENTGH + 1, "n")

(***************************************************************************)
(* Payload type tags (enum order of the data_info.type values, used by the *)
(* engine as indices into mqtt_topics)                                     *)
(***************************************************************************)
DATA_STRUCT_RESPONSE_READ == 0
DATA_STRUCT_RESPONSE_WRITE == 1
DATA_STRUCT_COMMAND_WRITE == 2
DATA_STRUCT_COMMAND_CONFIG == 3


(***************************************************************************)
(* Records, as the bytes of their C structs                                *)
(*   response_read_st  : uuid[8] sector block data[16]                     *)
(*   response_write_st : uuid[8] sector block status                       *)
(*   command_write_st  : sector block data[16]                             *)
(*   command_config_st : sector block mode                                 *)
(***************************************************************************)
Zeros(n) == Chars(n, 0)

response_read_st(uuid, sector, block, data) == uuid \o <<sector, block>> \o data
response_write_st(uuid, sector, block, status) == uuid \o <<sector, block, status>>
command_write_st(sector, block, data) == <<sector, block>> \o data
command_config_st(sector, block, mode) == <<sector, block, mode>>

SIZEOF_RESPONSE_READ == 26
SIZEOF_RESPONSE_WRITE == 11
SIZEOF_COMMAND_WRITE == 18
SIZEOF_COMMAND_CONFIG == 3

uuid_of(r) == SubSeq(r, 1, 8)
sector_of_response(r) == r[9]
block_of_response(r) == r[10]
data_of_response_read(r) == SubSeq(r, 11, 26)
status_of(r) == r[11]
sector_of_command(r) == r[1]
block_of_command(r) == r[2]
data_of_command_write(r) == SubSeq(r, 3, 18)
mode_of(r) == r[3]

VARIABLES
    mqtt_topics,                   \* global_config->mqtt_topics[0..9]
    initalized_mqtt_topics_count,  \* global_config->initalized_mqtt_topics_count
    queues,                        \* contents of the created queues, by handle
    phase,                         \* "startup", "running" or "aborted"
    last_call,                     \* the latest mqtt_topic_initialize call
    registered_as,                 \* the arguments of the call that took slot i
    valid_calls,                   \* number of calls with valid arguments so far
    failed_calls,                  \* number of calls that consumed a failure
    sensor_data_queue,             \* temperature_monitor.c: sensor_data_queue
    command_config,                \* application_task_execute locals
    command_write,
    response_read,
    response_write,
    uid,
    app_pc,
    last_access,                   \* the latest card access of read_sector or
                                   \* write_sector
    last_send,                     \* the latest xQueueSend: where, and its result
    last_receive,                  \* the latest xQueueReceive that got an item
    is_mqtt_connected,             \* mqtt_client_task.c statics and loop position
    mqtt_pc,
    publish_i,
    last_publish,                  \* the latest esp_mqtt_client_publish call
    last_subscribe,                \* the subscribe calls of the latest CONNECTED
    last_tick,                     \* the latest iteration of the engine loop
                                   \* and the indices it has transmitted for
    client,                        \* state of the esp-mqtt client
    event_bits,                    \* firmware_event_group
    sntp_pc                        \* position of sntp_task_execute

regVars == <<mqtt_topics, initalized_mqtt_topics_count,
             last_call, registered_as, valid_calls, failed_calls>>
appVars == <<command_config, command_write, response_read, response_write,
             uid, app_pc, last_access>>
mqttVars == <<is_mqtt_connected, mqtt_pc, publish_i, last_publish,
              last_subscribe, last_tick>>
envVars == <<client, event_bits, sntp_pc>>

vars == <<mqtt_topics, initalized_mqtt_topics_count, queues, phase,
          last_call, registered_as, valid_calls, failed_calls,
          sensor_data_queue, command_config, command_write, response_read,
          response_write, uid, app_pc, last_access, last_send, last_receive,
          is_mqtt_connected, mqtt_pc, publish_i, last_publish, last_subscribe,
          last_tick, client, event_bits, sntp_pc>>

TopicIndex == 0..(MQTT_MAXIMUM_TOPIC_COUNT - 1)

\* a zero-filled mqtt_topic_st
EmptyTopic ==
    [topic |-> <<>>, qos |-> 0, queue |-> NULL, direction |-> 0, type |-> 0]

\* the handle xQueueCreate returns for the queue of slot i
QueueHandle(i) == i + 1

(***************************************************************************)
(* FreeRTOS queues. A queue created with item size n copies n bytes of the *)
(* sender's buffer into the slot and n bytes of the slot into the          *)
(* receiver's buffer. A slot also remembers the buffer it was copied from  *)
(* (field sent), which no code reads.                                      *)
(***************************************************************************)
Slot(item_size, buffer) ==
    [bytes |-> SubSeq(buffer, 1, Min(Len(buffer), item_size)), sent |-> buffer]

\* xQueueSend on a queue that overwrites its newest slot when full
xQueueSend_overwrite(queue, item_size, buffer) ==
    IF Len(queue) < MAX_QUEUE_SIZE
    THEN [queue |-> Append(queue, Slot(item_size, buffer)), passed |-> TRUE]
    ELSE [queue |-> Append(SubSeq(queue, 1, Len(queue) - 1),
                           Slot(item_size, buffer)),
          passed |-> FALSE]

\* xQueueSend whose full test is off by one
xQueueSend_offbyone(queue, item_size, buffer) ==
    IF Len(queue) <= MAX_QUEUE_SIZE
    THEN [queue |-> Append(queue, Slot(item_size, buffer)), passed |-> TRUE]
    ELSE [queue |-> queue, passed |-> FALSE]

\* xQueueSend that puts the item in front of the waiting ones
xQueueSend_front(queue, item_size, buffer) ==
    IF Len(queue) < MAX_QUEUE_SIZE
    THEN [queue |-> <<Slot(item_size, buffer)>> \o queue, passed |-> TRUE]
    ELSE [queue |-> queue, passed |-> FALSE]

\* xQueueSend(queue, buffer, pdMS_TO_TICKS(100)) whose wait ends with the
\* queue as it finds it: pdPASS and the item appended, or errQUEUE_FULL
xQueueSend(queue, item_size, buffer) ==
    IF Len(queue) < MAX_QUEUE_SIZE
    THEN [queue |-> Append(queue, Slot(item_size, buffer)), passed |-> TRUE]
    ELSE [queue |-> queue, passed |-> FALSE]

\* the receiver's buffer after xQueueReceive copied the slot into it
xQueueReceive(slot, buffer) ==
    slot.bytes \o SubSeq(buffer, Len(slot.bytes) + 1, Len(buffer))

\* a receive that leaves the item in the queue (xQueuePeek)
xQueuePeek_rest(queue) == queue

\* the queue after xQueueReceive took its oldest item
xQueueReceive_rest(queue) == Tail(queue)

NoPublish == [topic |-> <<>>, channel |-> <<>>, uid |-> <<>>, record |-> <<>>,
              qos |-> 0, msg_ok |-> TRUE]
NoSend == [site |-> "none", handle |-> NULL, passed |-> TRUE]
NoReceive == [site |-> "none", handle |-> NULL, record |-> <<>>, sent |-> <<>>]
NoAccess == [op |-> "none", sector |-> 0, block |-> 0, auth_block |-> 0,
             block_index |-> 0, offset |-> 0, buffer_len |-> 0]
NoTick == [firmware_event_bits |-> {}, connected |-> FALSE, branch |-> "none",
           pending |-> FALSE, transmitted |-> <<>>]

(***************************************************************************)
(* mqtt_topic_initialize(global_config, topic_name, qos)                   *)
(*   queue_created: whether xQueueCreate finds memory for the queue        *)
(*   result: the new array, the new count and the return value             *)
(***************************************************************************)
mqtt_topic_initialize(topics, count, topic_name, qos, queue_created) ==
    IF topic_name = NULL_NAME
    THEN [topics |-> topics, count |-> count, result |-> ESP_ERR_INVALID_ARG]
    ELSE IF count >= MQTT_MAXIMUM_TOPIC_COUNT
    THEN [topics |-> topics, count |-> count, result |-> ESP_ERR_NO_MEM]
    ELSE
      LET \* &mqtt_topics[count++]
          slot == count
          count1 == count + 1
          written == snprintf_s(MQTT_MAXIMUM_TOPIC_LENTGH, topic_name)
          named == [topics EXCEPT ![slot].topic = written.stored]
      IN  IF written.ret >= MQTT_MAXIMUM_TOPIC_LENTGH
          THEN [topics |-> named, count |-> count1, result |-> ESP_ERR_INVALID_ARG]
          ELSE IF ~queue_created
          THEN [topics |-> [named EXCEPT ![slot].queue = NULL],
                count |-> count1, result |-> ESP_ERR_NO_MEM]
          ELSE [topics |-> [named EXCEPT ![slot].queue = QueueHandle(slot),
                                         ![slot].qos = qos],
                count |-> count1, result |-> ESP_OK]

\* the arguments of a call are valid when the call has nothing to reject
ValidCall(def, queue_created) ==
    /\ def.name /= NULL_NAME
    /\ Len(def.name) < MQTT_MAXIMUM_TOPIC_LENTGH
    /\ queue_created

(***************************************************************************)
(* One registration call of the start-up code: mqtt_topic_initialize, and  *)
(* on success the direction and the type tag of the new topic.             *)
(***************************************************************************)
SetDataInfo(topics, slot, def) ==
    [topics EXCEPT ![slot].direction = def.direction, ![slot].type = def.type]

Register(def, queue_created) ==
    LET r == mqtt_topic_initialize(mqtt_topics, initalized_mqtt_topics_count,
                                   def.name, def.qos, queue_created)
        slot == initalized_mqtt_topics_count
        fails == ~ValidCall(def, queue_created)
    IN  /\ phase = "startup"
        /\ last_call.calls < MaxCalls
        /\ fails => failed_calls < MaxFailedCalls
        /\ mqtt_topics' = IF r.result = ESP_OK
                          THEN SetDataInfo(r.topics, slot, def)
                          ELSE r.topics
        /\ initalized_mqtt_topics_count' = r.count
        /\ queues' = IF r.result = ESP_OK
                     THEN [queues EXCEPT ![QueueHandle(slot)] = <<>>]
                     ELSE queues
        /\ last_call' = [name |-> def.name, qos |-> def.qos,
                         queue_created |-> queue_created,
                         result |-> r.result,
                         count_before |-> initalized_mqtt_topics_count,
                         valid_before |-> valid_calls,
                         calls |-> last_call.calls + 1]
        /\ registered_as' = IF r.count > initalized_mqtt_topics_count
                            THEN [registered_as EXCEPT ![slot] =
                                     [name |-> def.name, qos |-> def.qos,
                                      queue_created |-> queue_created]]
                            ELSE registered_as
        /\ valid_calls' = IF fails THEN valid_calls ELSE valid_calls + 1
        /\ failed_calls' = IF fails THEN failed_calls + 1 ELSE failed_calls
        /\ UNCHANGED <<phase, sensor_data_queue, appVars, last_send,
                       last_receive, mqttVars, envVars>>

NoRegistration == [name |-> NULL_NAME, qos |-> 0, queue_created |-> FALSE]

NoCall ==
    [name |-> NULL_NAME, qos |-> 0, queue_created |-> FALSE, result |-> "none",
     count_before |-> 0, valid_before |-> 0, calls |-> 0]

Init ==
    /\ mqtt_topics = [i \in TopicIndex |-> EmptyTopic]
    /\ initalized_mqtt_topics_count = 0
    /\ queues = [h \in 1..MQTT_MAXIMUM_TOPIC_COUNT |-> <<>>]
    /\ phase = "startup"
    /\ last_call = NoCall
    /\ registered_as = [i \in TopicIndex |-> NoRegistration]
    /\ valid_calls = 0
    /\ failed_calls = 0
    /\ sensor_data_queue = <<>>
    /\ command_config = command_config_st(1, 1, READ)
    /\ command_write = Zeros(SIZEOF_COMMAND_WRITE)
    /\ response_read = Zeros(SIZEOF_RESPONSE_READ)
    /\ response_write = Zeros(SIZEOF_RESPONSE_WRITE)
    /\ uid = <<>>
    /\ app_pc = "loop"
    /\ last_access = NoAccess
    /\ last_send = NoSend
    /\ last_receive = NoReceive
    /\ is_mqtt_connected = FALSE
    /\ mqtt_pc = "tick"
    /\ publish_i = 0
    /\ last_publish = NoPublish
    /\ last_subscribe = <<>>
    /\ last_tick = NoTick
    /\ client = "stopped"
    /\ event_bits = {}
    /\ sntp_pc = "wait"

\* app_main has created the tasks: the registry is complete from here on
StartScheduler ==
    /\ phase = "startup"
    /\ phase' = "running"
    /\ UNCHANGED <<regVars, queues, sensor_data_queue, appVars, last_send,
                   last_receive, mqttVars, envVars>>

(***************************************************************************)
(* Sending to and receiving from the queue of a registry slot              *)
(***************************************************************************)
\* the queue handle the code reads at mqtt_topics[index].queue
HandleAt(index) == mqtt_topics[index].queue

\* the effect of one xQueueSend of a task on the topic queues: a NULL handle
\* fails the assertion of the queue layer and ends the firmware run
SendTo(site, handle, buffer) ==
    IF handle = NULL
    THEN /\ phase' = "aborted"
         /\ UNCHANGED <<queues, last_send>>
    ELSE LET r == xQueueSend(queues[handle], ITEM_SIZE, buffer)
         IN  /\ queues' = [queues EXCEPT ![handle] = r.queue]
             /\ last_send' = [site |-> site, handle |-> handle,
                              passed |-> r.passed]
             /\ UNCHANGED phase

(***************************************************************************)
(* application_task.c                                                      *)
(***************************************************************************)
Byte(n) == n % 256

\* read_sector: the return value, the card blocks authenticated and read,
\* and the offset in read_data at which the 16 bytes are stored
read_sector(sector, block, read_data_len, auth_ok, read_ok) ==
    LET block_offset == Byte(sector * 4)
        block_index == Byte(block_offset + block)
        access == [auth_block |-> block_offset + MIFARE_TRAILER_BLOCK,
                   block_index |-> block_index,
                   offset |-> block * MIFARE_BLOCK_SIZE]
    IN  IF block >= MIFARE_DATA_BLOCKS_PER_SECTOR
        THEN [result |-> ESP_ERR_INVALID_ARG, accessed |-> FALSE] @@ access
        ELSE IF read_data_len < MIFARE_BLOCK_SIZE
        THEN [result |-> "ESP_ERR_INVALID_SIZE", accessed |-> FALSE] @@ access
        ELSE IF ~auth_ok
        THEN [result |-> "ESP_FAIL", accessed |-> FALSE] @@ access
        ELSE IF ~read_ok
        THEN [result |-> "ESP_FAIL", accessed |-> TRUE] @@ access
        ELSE [result |-> ESP_OK, accessed |-> TRUE] @@ access

\* write_sector: the same for a write of 16 bytes taken from data + offset
write_sector(sector, block, auth_ok, write_ok) ==
    LET block_offset == Byte(sector * 4)
        block_index == Byte(block_offset + block)
        access == [auth_block |-> block_offset + MIFARE_TRAILER_BLOCK,
                   block_index |-> block_index,
                   offset |-> block * MIFARE_BLOCK_SIZE]
    IN  IF block >= MIFARE_DATA_BLOCKS_PER_SECTOR
        THEN [result |-> "ESP_FAIL", accessed |-> FALSE] @@ access
        ELSE IF ~auth_ok
        THEN [result |-> "ESP_FAIL", accessed |-> FALSE] @@ access
        ELSE IF ~write_ok
        THEN [result |-> "ESP_FAIL", accessed |-> TRUE] @@ access
        ELSE [result |-> ESP_OK, accessed |-> TRUE] @@ access

\* the card access of a call of read_sector or write_sector that got past
\* the authentication: the blocks it used, and the offset and the length of
\* the caller's buffer
AccessOf(op, sector, block, buffer_len, r) ==
    [op |-> op, sector |-> sector, block |-> block,
     auth_block |-> r.auth_block, block_index |-> r.block_index,
     offset |-> r.offset, buffer_len |-> buffer_len]

\* the data field of response_read after read_sector stored card_data at
\* response_read.data + offset: only offset 0 lies inside the field
StoreBlock(data, offset, card_data) ==
    IF offset = 0 THEN card_data ELSE data

\* tags that can be presented to the reader, and what a card block holds
Uid1 == <<8, 7, 6, 5, 4, 3, 2, 1>>
Uid2 == <<2, 0, 0, 0, 0, 0, 0, 0>>
NoTag == <<>>
CardData == { [i \in 1..MIFARE_BLOCK_SIZE |-> i] }

\* the local command_config at the end of an iteration of the loop, whatever
\* the iteration did (outcome): no statement of the loop assigns it
ConfigAfter(config, outcome) == config

\* response_read after the three assignments that follow a successful read
ReadResponseOf(held, config, data) ==
    response_read_st(held, sector_of_command(config),
                     block_of_command(config), data)

\* what the 16 bytes that read_sector stores past the end of
\* response_read.data land on in the frame of application_task_execute:
\* bytes no statement reads again, or the local command_config
StoreTargets == {"unused", "command_config"}

\* the stores a call with this offset and buffer length can make
StoresOf(offset, read_data_len) ==
    IF offset + MIFARE_BLOCK_SIZE <= read_data_len THEN {"inside"}
    ELSE StoreTargets

\* the local command_config after the store of a successful read
ConfigStored(config, store, card_data) ==
    IF store = "command_config"
    THEN SubSeq(card_data, 1, SIZEOF_COMMAND_CONFIG)
    ELSE config

\* one iteration of the READ branch
\*   tag: the card readPassiveTargetID detects within its timeout, or NoTag
\*   auth_ok, read_ok: whether the card authenticates and answers the read
\*   store: where the bytes of the block land
ReadIteration(tag, auth_ok, read_ok, card_data, store) ==
    IF tag = NoTag
    THEN /\ command_config' = ConfigAfter(command_config, "timeout")
         /\ UNCHANGED <<queues, phase, last_send, response_read, uid,
                        last_access>>
    ELSE LET sector == sector_of_command(command_config)
             block == block_of_command(command_config)
             r == read_sector(sector, block, MIFARE_BLOCK_SIZE, auth_ok, read_ok)
             data == StoreBlock(data_of_response_read(response_read),
                                r.offset, card_data)
             record == ReadResponseOf(tag, command_config, data)
         IN  /\ uid' = tag
             /\ last_access' = IF r.accessed
                               THEN AccessOf("read", sector, block,
                                             MIFARE_BLOCK_SIZE, r)
                               ELSE last_access
             /\ IF r.result = ESP_OK
                THEN /\ store \in StoresOf(r.offset, MIFARE_BLOCK_SIZE)
                     /\ command_config' =
                           ConfigStored(ConfigAfter(command_config, r.result),
                                        store, card_data)
                     /\ response_read' = record
                     /\ SendTo("application_read",
                               HandleAt(DATA_STRUCT_RESPONSE_READ), record)
                ELSE /\ command_config' = ConfigAfter(command_config, r.result)
                     /\ UNCHANGED <<response_read, queues, phase, last_send>>

ApplicationRead(tags) ==
    \E tag \in tags \cup {NoTag}, auth_ok \in BOOLEAN, read_ok \in BOOLEAN,
       card_data \in CardData, store \in StoreTargets \cup {"inside"} :
        ReadIteration(tag, auth_ok, read_ok, card_data, store)

\* the WRITE branch up to its xQueueReceive
ApplicationWriteReceive ==
    LET handle == HandleAt(DATA_STRUCT_COMMAND_WRITE)
    IN  IF handle = NULL
        THEN /\ phase' = "aborted"
             /\ UNCHANGED <<queues, command_config, command_write,
                            last_receive, app_pc>>
        ELSE IF queues[handle] = <<>>
        THEN /\ command_config' = ConfigAfter(command_config, "timeout")
             /\ UNCHANGED <<queues, phase, command_write, last_receive,
                            app_pc>>
        ELSE LET slot == Head(queues[handle])
                 got == xQueueReceive(slot, command_write)
             IN  /\ queues' = [queues EXCEPT
                                  ![handle] = xQueueReceive_rest(@)]
                 /\ command_write' = got
                 /\ last_receive' = [site |-> "application_write",
                                     handle |-> handle, record |-> got,
                                     sent |-> slot.sent]
                 /\ app_pc' = "respond"
                 /\ UNCHANGED <<phase, command_config>>

\* the WRITE branch from write_sector to the end of the iteration
ApplicationWriteRespond(tags) ==
    \E auth_ok \in BOOLEAN, write_ok \in BOOLEAN,
       held \in (IF uid = <<>> THEN tags ELSE {uid}) :
      LET sector == sector_of_command(command_write)
          block == block_of_command(command_write)
          w == write_sector(sector, block, auth_ok, write_ok)
          status == IF w.result = ESP_OK THEN 0 ELSE -1
          record == response_write_st(held, sector, block, status)
      IN  /\ response_write' = record
          /\ app_pc' = "loop"
          /\ last_access' = IF w.accessed
                            THEN AccessOf("write", sector, block,
                                          Len(data_of_command_write(
                                                command_write)), w)
                            ELSE last_access
          /\ command_config' = ConfigAfter(command_config, w.result)
          /\ SendTo("application_write",
                    HandleAt(DATA_STRUCT_RESPONSE_WRITE), record)

\* application_task_execute: one step of its loop
application_task_execute(tags) ==
    /\ phase = "running"
    /\ IF app_pc = "respond"
       THEN /\ ApplicationWriteRespond(tags)
            /\ UNCHANGED <<command_write, response_read, uid, last_receive>>
       ELSE IF mode_of(command_config) = READ
       THEN /\ ApplicationRead(tags)
            /\ UNCHANGED <<command_write, response_write, app_pc,
                           last_receive>>
       ELSE IF mode_of(command_config) = WRITE
       THEN /\ ApplicationWriteReceive
            /\ UNCHANGED <<response_read, response_write, uid, last_send,
                           last_access>>
       ELSE UNCHANGED <<queues, phase, appVars, last_send, last_receive>>
    /\ UNCHANGED <<regVars, sensor_data_queue, mqttVars, envVars>>

(***************************************************************************)
(* temperature_monitor.c                                                   *)
(***************************************************************************)
\* a temperature_data_st: two floats
Readings == { Zeros(SENSOR_ITEM_SIZE) }

\* one iteration of temperature_monitor_execute
temperature_monitor_execute ==
    \E temperature_data \in Readings :
      LET r == xQueueSend(sensor_data_queue, SENSOR_ITEM_SIZE, temperature_data)
      IN  /\ phase = "running"
          /\ sensor_data_queue' = r.queue
          /\ last_send' = [site |-> "sensor", handle |-> NULL,
                           passed |-> r.passed]
          /\ UNCHANGED <<regVars, queues, phase, appVars, last_receive,
                         mqttVars, envVars>>

(***************************************************************************)
(* mqtt_client_task.c                                                      *)
(***************************************************************************)
\* get_unique_id: twelve hexadecimal characters of the MAC address
unique_id == <<"2","4","A","1","6","0","F","F","E","E","0","1">>
titanium == <<"/","t","i","t","a","n","i","u","m","/">>
CHANNEL_SIZE == 64
UUID_STRING_SIZE == 16

\* snprintf(channel, sizeof(channel), "/titanium/%s/%s", unique_id, topic)
ChannelOf(topic) == snprintf_s(CHANNEL_SIZE, titanium \o unique_id \o <<"/">> \o topic)

\* strstr(haystack, needle) != NULL
Contains(haystack, needle) ==
    \E k \in 0..(Len(haystack) - Len(needle)) :
        SubSeq(haystack, k + 1, k + Len(needle)) = needle

\* the decimal digits of the unsigned integer whose bytes, least significant
\* first, are given ("%" PRIu64 of uuid.integer): long division by ten
RECURSIVE DivTen(_, _, _)
DivTen(bytes_msb_first, rem, quotient) ==
    IF bytes_msb_first = <<>>
    THEN [quotient |-> quotient, rem |-> rem]
    ELSE LET cur == rem * 256 + Head(bytes_msb_first)
         IN  DivTen(Tail(bytes_msb_first), cur % 10,
                    Append(quotient, cur \div 10))

Reverse(seq) == [i \in 1..Len(seq) |-> seq[Len(seq) + 1 - i]]

RECURSIVE DecimalMsb(_)
DecimalMsb(bytes_msb_first) ==
    IF \A i \in 1..Len(bytes_msb_first) : bytes_msb_first[i] = 0
    THEN <<>>
    ELSE LET d == DivTen(bytes_msb_first, 0, <<>>)
         IN  Append(DecimalMsb(d.quotient), d.rem)

PRIu64(bytes) ==
    LET digits == DecimalMsb(Reverse(bytes))
    IN  IF digits = <<>> THEN <<0>> ELSE digits

\* what a payload decodes to: the JSON parsers fill the zeroed struct they
\* are given when the payload has the fields of that struct
parse_json_command_write(payload) ==
    IF payload.kind = "command_write"
    THEN [ok |-> TRUE, record |-> payload.record]
    ELSE [ok |-> FALSE, record |-> Zeros(SIZEOF_COMMAND_WRITE)]

parse_json_command_config(payload) ==
    IF payload.kind = "command_config"
    THEN [ok |-> TRUE, record |-> payload.record]
    ELSE [ok |-> FALSE, record |-> Zeros(SIZEOF_COMMAND_CONFIG)]

\* xQueueSend inside a handler that makes several calls: the queues and the
\* latest send after this one; a NULL handle ends the run
SendIn(st, site, handle, buffer) ==
    IF st.aborted \/ handle = NULL
    THEN [st EXCEPT !.aborted = TRUE]
    ELSE LET r == xQueueSend(st.queues[handle], ITEM_SIZE, buffer)
         IN  [queues |-> [st.queues EXCEPT ![handle] = r.queue],
              last_send |-> [site |-> site, handle |-> handle,
                             passed |-> r.passed],
              aborted |-> FALSE]

\* the body of the loop of mqtt_subscribe_topic_callback for index i
RouteTo(st, i, topic, payload) ==
    IF mqtt_topics[i].queue = NULL THEN st
    ELSE IF mqtt_topics[i].direction = PUBLISH THEN st
    ELSE IF ~Contains(topic, mqtt_topics[i].topic) THEN st
    ELSE IF mqtt_topics[i].type = DATA_STRUCT_COMMAND_WRITE
    THEN SendIn(st, "inbound_command_write",
                HandleAt(DATA_STRUCT_COMMAND_WRITE),
                parse_json_command_write(payload).record)
    ELSE IF mqtt_topics[i].type = DATA_STRUCT_COMMAND_CONFIG
    THEN SendIn(st, "inbound_command_config",
                HandleAt(DATA_STRUCT_COMMAND_CONFIG),
                parse_json_command_config(payload).record)
    ELSE st

RECURSIVE RouteFrom(_, _, _, _)
RouteFrom(st, i, topic, payload) ==
    IF i >= initalized_mqtt_topics_count \/ st.aborted
    THEN st
    ELSE RouteFrom(RouteTo(st, i, topic, payload), i + 1, topic, payload)

\* mqtt_subscribe_topic_callback(topic, event_data, event_data_len)
mqtt_subscribe_topic_callback(topic, payload) ==
    LET st0 == [queues |-> queues, last_send |-> last_send, aborted |-> FALSE]
        st == IF payload.kind = "empty" THEN st0
              ELSE RouteFrom(st0, 0, topic, payload)
    IN  /\ queues' = st.queues
        /\ last_send' = st.last_send
        /\ phase' = IF st.aborted THEN "aborted" ELSE phase

\* mqtt_event_handler, MQTT_EVENT_DATA
mqtt_event_data(topic, payload) ==
    /\ phase = "running"
    /\ mqtt_subscribe_topic_callback(topic, payload)
    /\ UNCHANGED <<regVars, sensor_data_queue, appVars, last_receive,
                   mqttVars, envVars>>

\* mqtt_subscribe: the subscribe calls made, in order
RECURSIVE SubscribeFrom(_)
SubscribeFrom(i) ==
    IF i >= initalized_mqtt_topics_count THEN <<>>
    ELSE IF mqtt_topics[i].queue /= NULL /\ mqtt_topics[i].direction = SUBSCRIBE
              /\ ChannelOf(mqtt_topics[i].topic).ret < CHANNEL_SIZE
    THEN <<[channel |-> ChannelOf(mqtt_topics[i].topic).stored, qos |-> 1]>>
         \o SubscribeFrom(i + 1)
    ELSE SubscribeFrom(i + 1)

\* mqtt_event_handler, MQTT_EVENT_CONNECTED
mqtt_event_connected ==
    /\ phase = "running"
    /\ client = "connecting"
    /\ client' = "connected"
    /\ is_mqtt_connected' = TRUE
    /\ last_subscribe' = SubscribeFrom(0)
    /\ UNCHANGED <<regVars, queues, phase, sensor_data_queue, appVars,
                   last_send, last_receive, mqtt_pc, publish_i, last_publish,
                   last_tick, event_bits, sntp_pc>>

\* a DISCONNECTED handler that also empties the registry
mqtt_event_disconnected_unregister ==
    /\ phase = "running"
    /\ \/ client = "connected" /\ client' = "connecting"
       \/ client = "stopped" /\ is_mqtt_connected /\ client' = client
    /\ is_mqtt_connected' = FALSE
    /\ initalized_mqtt_topics_count' = 0
    /\ UNCHANGED <<mqtt_topics, last_call, registered_as, valid_calls,
                   failed_calls, queues, phase, sensor_data_queue, appVars,
                   last_send, last_receive, mqtt_pc, publish_i, last_publish,
                   last_subscribe, last_tick, event_bits, sntp_pc>>

\* mqtt_event_handler, MQTT_EVENT_DISCONNECTED: the connection is lost and
\* the client reconnects by itself, or a stopped client reports its end
mqtt_event_disconnected ==
    /\ phase = "running"
    /\ \/ client = "connected" /\ client' = "connecting"
       \/ client = "stopped" /\ is_mqtt_connected /\ client' = client
    /\ is_mqtt_connected' = FALSE
    /\ UNCHANGED <<regVars, queues, phase, sensor_data_queue, appVars,
                   last_send, last_receive, mqtt_pc, publish_i, last_publish,
                   last_subscribe, last_tick, event_bits, sntp_pc>>

\* the greatest element of a non-empty set of indices
MaxOf(S) == CHOOSE j \in S : \A k \in S : k <= j

\* a pass that walks the registry from its last entry down to the first
NextPublish_descending(i) ==
    LET below == {j \in TopicIndex :
                    /\ j < initalized_mqtt_topics_count
                    /\ mqtt_topics[j].queue /= NULL
                    /\ mqtt_topics[j].direction = PUBLISH
                    /\ (i = 0 \/ j < i - 1)}
    IN  IF below = {} THEN initalized_mqtt_topics_count ELSE MaxOf(below)

\* the next index from i on that mqtt_publish hands to mqtt_publish_topic
RECURSIVE NextPublish(_)
NextPublish(i) ==
    IF i >= initalized_mqtt_topics_count THEN initalized_mqtt_topics_count
    ELSE IF mqtt_topics[i].queue /= NULL /\ mqtt_topics[i].direction = PUBLISH
    THEN i
    ELSE NextPublish(i + 1)

\* whether the queue of some PUBLISH topic holds a record
PendingRecords ==
    \E i \in TopicIndex :
       /\ i < initalized_mqtt_topics_count
       /\ mqtt_topics[i].direction = PUBLISH
       /\ mqtt_topics[i].queue /= NULL
       /\ queues[mqtt_topics[i].queue] /= <<>>

\* a loop that starts the outbound pass without looking at TIME_SYNCED
TickDecision_nosync(connected, firmware_event_bits) ==
    IF connected
    THEN IF "WIFI_CONNECTED_STA" \notin firmware_event_bits THEN "stop"
         ELSE "publish"
    ELSE IF "WIFI_CONNECTED_STA" \in firmware_event_bits THEN "start"
         ELSE "none"

\* a loop that does not look at WIFI_CONNECTED_STA while connected
TickDecision_nolink(connected, firmware_event_bits) ==
    IF connected
    THEN IF "TIME_SYNCED" \in firmware_event_bits THEN "publish" ELSE "none"
    ELSE IF "WIFI_CONNECTED_STA" \in firmware_event_bits THEN "start"
         ELSE "none"

\* the branch the loop of mqtt_client_task_execute takes for the connection
\* flag and the event bits it sampled
TickDecision(connected, firmware_event_bits) ==
    IF connected
    THEN IF "WIFI_CONNECTED_STA" \notin firmware_event_bits THEN "stop"
         ELSE IF "TIME_SYNCED" \in firmware_event_bits THEN "publish"
         ELSE "none"
    ELSE IF "WIFI_CONNECTED_STA" \in firmware_event_bits THEN "start"
         ELSE "none"

\* one iteration of the loop of mqtt_client_task_execute up to the entry of
\* mqtt_publish
mqtt_client_task_execute ==
    /\ phase = "running"
    /\ mqtt_pc = "tick"
    /\ LET firmware_event_bits == event_bits
           branch == TickDecision(is_mqtt_connected, firmware_event_bits)
       IN  /\ last_tick' = [firmware_event_bits |-> firmware_event_bits,
                            connected |-> is_mqtt_connected,
                            branch |-> branch, pending |-> PendingRecords,
                            transmitted |-> <<>>]
           /\ IF branch = "stop"
              THEN /\ client' = "stopped"
                   /\ UNCHANGED <<mqtt_pc, publish_i>>
              ELSE IF branch = "publish"
                        /\ NextPublish(0) < initalized_mqtt_topics_count
              THEN /\ mqtt_pc' = "publish"
                   /\ publish_i' = NextPublish(0)
                   /\ UNCHANGED client
              ELSE IF branch = "start"
              THEN /\ client' = IF client = "stopped" THEN "connecting"
                                ELSE client
                   /\ UNCHANGED <<mqtt_pc, publish_i>>
              ELSE UNCHANGED <<mqtt_pc, publish_i, client>>
    /\ UNCHANGED <<regVars, queues, phase, sensor_data_queue, appVars,
                   last_send, last_receive, is_mqtt_connected, last_publish,
                   last_subscribe, event_bits, sntp_pc>>

\* the dequeue with the size check of the uid left out
Dequeue_unchecked(type, size) ==
    LET handle == HandleAt(type)
    IN  IF handle = NULL THEN [result |-> "abort"]
        ELSE IF queues[handle] = <<>> THEN [result |-> "ESP_ERR_NOT_FOUND"]
        ELSE LET slot == Head(queues[handle])
                 got == xQueueReceive(slot, Zeros(size))
             IN  [result |-> ESP_OK, handle |-> handle, record |-> got,
                  sent |-> slot.sent, uid |-> PRIu64(uuid_of(got))]

\* the dequeue reading the queue at the index of the write commands
Dequeue_command(type, size) ==
    LET handle == HandleAt(DATA_STRUCT_COMMAND_WRITE)
    IN  IF handle = NULL THEN [result |-> "abort"]
        ELSE IF queues[handle] = <<>> THEN [result |-> "ESP_ERR_NOT_FOUND"]
        ELSE LET slot == Head(queues[handle])
                 got == xQueueReceive(slot, Zeros(size))
                 uuid_string == PRIu64(uuid_of(got))
             IN  [result |-> IF Len(uuid_string) >= UUID_STRING_SIZE
                             THEN "ESP_ERR_INVALID_SIZE" ELSE ESP_OK,
                  handle |-> handle, record |-> got, sent |-> slot.sent,
                  uid |-> uuid_string]

\* mqtt_publish_response_read and mqtt_publish_response_write: the dequeue
\* into a zeroed struct and the formatting of the uid
Dequeue(type, size) ==
    LET handle == HandleAt(type)
    IN  IF handle = NULL THEN [result |-> "abort"]
        ELSE IF queues[handle] = <<>> THEN [result |-> "ESP_ERR_NOT_FOUND"]
        ELSE LET slot == Head(queues[handle])
                 got == xQueueReceive(slot, Zeros(size))
                 uuid_string == PRIu64(uuid_of(got))
             IN  [result |-> IF Len(uuid_string) >= UUID_STRING_SIZE
                             THEN "ESP_ERR_INVALID_SIZE" ELSE ESP_OK,
                  handle |-> handle, record |-> got, sent |-> slot.sent,
                  uid |-> uuid_string]

\* the switch of mqtt_publish_topic on the type tag of the topic
Formatted(topic) ==
    IF topic.type = DATA_STRUCT_RESPONSE_READ
    THEN Dequeue(DATA_STRUCT_RESPONSE_READ, SIZEOF_RESPONSE_READ)
    ELSE IF topic.type = DATA_STRUCT_RESPONSE_WRITE
    THEN Dequeue(DATA_STRUCT_RESPONSE_WRITE, SIZEOF_RESPONSE_WRITE)
    ELSE [result |-> "ESP_FAIL"]

\* whether mqtt_publish_topic reaches its esp_mqtt_client_publish call
CallsPublish(topic) ==
    /\ Formatted(topic).result = ESP_OK
    /\ ChannelOf(topic.topic).ret < CHANNEL_SIZE

\* a publish result handler that puts the record back when the call failed
AfterPublish_requeue(queue, slot, msg_ok) ==
    IF msg_ok THEN queue ELSE <<slot>> \o queue

\* the queue after the result of esp_mqtt_client_publish was handled: the
\* message id is logged, nothing else
AfterPublish(queue, slot, msg_ok) == queue

\* mqtt_publish_topic(&mqtt_topics[publish_i]) and the step of the loop of
\* mqtt_publish to the next PUBLISH topic
\*   msg_ok: whether esp_mqtt_client_publish returns a message id >= 0
mqtt_publish_topic ==
    /\ phase = "running"
    /\ mqtt_pc = "publish"
    /\ LET topic == mqtt_topics[publish_i]
           d == Formatted(topic)
           channel == ChannelOf(topic.topic)
           dequeued == d.result \in {ESP_OK, "ESP_ERR_INVALID_SIZE"}
           next == NextPublish(publish_i + 1)
       IN  /\ phase' = IF d.result = "abort" THEN "aborted" ELSE phase
           /\ last_receive' = IF dequeued
                              THEN [site |-> "outbound", handle |-> d.handle,
                                    record |-> d.record, sent |-> d.sent]
                              ELSE last_receive
           /\ IF CallsPublish(topic)
              THEN \E msg_ok \in BOOLEAN :
                     /\ last_publish' = [topic |-> topic.topic,
                                         channel |-> channel.stored,
                                         uid |-> d.uid, record |-> d.record,
                                         qos |-> 1, msg_ok |-> msg_ok]
                     /\ queues' = [queues EXCEPT ![d.handle] =
                                      AfterPublish(xQueueReceive_rest(@),
                                                   Head(@), msg_ok)]
                     /\ last_tick' = [last_tick EXCEPT !.transmitted =
                                                        Append(@, publish_i)]
              ELSE /\ UNCHANGED <<last_publish, last_tick>>
                   /\ queues' = IF dequeued
                                THEN [queues EXCEPT
                                        ![d.handle] = xQueueReceive_rest(@)]
                                ELSE queues
           /\ IF next < initalized_mqtt_topics_count
              THEN publish_i' = next /\ UNCHANGED mqtt_pc
              ELSE publish_i' = 0 /\ mqtt_pc' = "tick"
    /\ UNCHANGED <<regVars, sensor_data_queue, appVars, last_send,
                   is_mqtt_connected, last_subscribe, envVars>>

(***************************************************************************)
(* The link flag and sntp_task.c                                           *)
(***************************************************************************)
\* the network task sets and clears WIFI_CONNECTED_STA
network_link(up) ==
    /\ phase = "running"
    /\ event_bits' = IF up THEN event_bits \cup {"WIFI_CONNECTED_STA"}
                     ELSE event_bits \ {"WIFI_CONNECTED_STA"}
    /\ event_bits' /= event_bits
    /\ UNCHANGED <<regVars, queues, phase, sensor_data_queue, appVars,
                   last_send, last_receive, mqttVars, client, sntp_pc>>

\* a check that sets TIME_SYNCED whatever year the clock reads
sntp_task_sync_time_obtain_time_anyyear(bits, clock_valid) ==
    [event_bits |-> bits \cup {"TIME_SYNCED"}, is_sntp_synced |-> clock_valid]

\* sntp_task_sync_time_obtain_time: the event bits and is_sntp_synced after
\* one check of the clock
\*   clock_valid: timeinfo.tm_year >= 2020 - 1900
sntp_task_sync_time_obtain_time(bits, clock_valid) ==
    IF ~clock_valid
    THEN [event_bits |-> bits \ {"TIME_SYNCED"}, is_sntp_synced |-> FALSE]
    ELSE [event_bits |-> bits \cup {"TIME_SYNCED"}, is_sntp_synced |-> TRUE]

\* sntp_task_execute: the wait for the link, then one check of the clock per
\* iteration until a check finds the year 2020 or later
sntp_task_execute ==
    /\ phase = "running"
    /\ \/ /\ sntp_pc = "wait"
          /\ "WIFI_CONNECTED_STA" \in event_bits
          /\ sntp_pc' = "sync"
          /\ UNCHANGED event_bits
       \/ /\ sntp_pc = "sync"
          /\ \E clock_valid \in BOOLEAN :
               LET check == sntp_task_sync_time_obtain_time(event_bits,
                                                            clock_valid)
               IN  /\ event_bits' = check.event_bits
                   /\ sntp_pc' = IF check.is_sntp_synced THEN "done"
                                 ELSE sntp_pc
    /\ UNCHANGED <<regVars, queues, phase, sensor_data_queue, appVars,
                   last_send, last_receive, mqttVars, client>>

(***************************************************************************)
(* Registry specification: any sequence of registration calls              *)
(***************************************************************************)
RegistryDefs ==
    { [name |-> response_read_name, qos |-> 1, direction |-> PUBLISH,
       type |-> DATA_STRUCT_RESPONSE_READ],
      [name |-> NameMax, qos |-> 2, direction |-> SUBSCRIBE,
       type |-> DATA_STRUCT_COMMAND_WRITE],
      [name |-> NameOver, qos |-> 2, direction |-> SUBSCRIBE,
       type |-> DATA_STRUCT_COMMAND_WRITE],
      [name |-> NameOver2, qos |-> 1, direction |-> PUBLISH,
       type |-> DATA_STRUCT_RESPONSE_WRITE],
      [name |-> NULL_NAME, qos |-> 1, direction |-> PUBLISH,
       type |-> DATA_STRUCT_RESPONSE_READ] }

RegisterAny ==
    \E def \in RegistryDefs, queue_created \in BOOLEAN :
        Register(def, queue_created)

NextRegistry == RegisterAny

SpecRegistry == Init /\ [][NextRegistry]_vars

\* the calls of the registry specification whose name is at or beyond the
\* longest name that fits
NameDefs ==
    { def \in RegistryDefs : Len(def.name) >= MQTT_MAXIMUM_TOPIC_LENTGH - 1 }

RegisterLongName ==
    \E def \in NameDefs, queue_created \in BOOLEAN :
        Register(def, queue_created)

SpecNames == Init /\ [][RegisterLongName]_vars

(***************************************************************************)
(* The firmware: start-up registers the four topics in the order of their  *)
(* type tags, then the tasks run                                           *)
(***************************************************************************)
SystemTopics ==
    << [name |-> response_read_name, qos |-> 0, direction |-> PUBLISH,
        type |-> DATA_STRUCT_RESPONSE_READ],
       [name |-> response_write_name, qos |-> 1, direction |-> PUBLISH,
        type |-> DATA_STRUCT_RESPONSE_WRITE],
       [name |-> command_write_name, qos |-> 2, direction |-> SUBSCRIBE,
        type |-> DATA_STRUCT_COMMAND_WRITE],
       [name |-> command_config_name, qos |-> 1, direction |-> SUBSCRIBE,
        type |-> DATA_STRUCT_COMMAND_CONFIG] >>

RegisterSystemTopic ==
    /\ initalized_mqtt_topics_count < Len(SystemTopics)
    /\ Register(SystemTopics[initalized_mqtt_topics_count + 1], TRUE)

StartSystem ==
    /\ initalized_mqtt_topics_count = Len(SystemTopics)
    /\ StartScheduler

\* inbound payloads: a write command, a config command that asks for WRITE
\* mode, a payload that is no JSON object, and an empty payload
WriteCommand1 == command_write_st(2, 0, [i \in 1..MIFARE_BLOCK_SIZE |-> i])
ConfigCommand1 == command_config_st(2, 0, WRITE)

WritePayload == [kind |-> "command_write", record |-> WriteCommand1]
ConfigPayload == [kind |-> "command_config", record |-> ConfigCommand1]
GarbagePayload == [kind |-> "garbage", record |-> <<>>]
EmptyPayload == [kind |-> "empty", record |-> <<>>]

\* the messages a broker sends to the firmware's two command channels
SystemMessages ==
    { [topic |-> ChannelOf(command_write_name).stored, payload |-> WritePayload],
      [topic |-> ChannelOf(command_config_name).stored, payload |-> ConfigPayload],
      [topic |-> ChannelOf(command_config_name).stored, payload |-> EmptyPayload] }

Tags == {Uid1, Uid2}

DataEvent ==
    /\ client = "connected"
    /\ \E m \in SystemMessages : mqtt_event_data(m.topic, m.payload)

ApplicationStep == application_task_execute(Tags)

\* the reader loop with one card
OneTagStep == application_task_execute({Uid2})

LinkUp == network_link(TRUE)

LinkDown == network_link(FALSE)

Next ==
    \/ RegisterSystemTopic
    \/ StartSystem
    \/ OneTagStep
    \/ mqtt_client_task_execute
    \/ mqtt_publish_topic
    \/ mqtt_event_connected
    \/ mqtt_event_disconnected
    \/ DataEvent
    \/ LinkUp
    \/ LinkDown
    \/ sntp_task_execute

Spec == Init /\ [][Next]_vars

\* the same while the link stays up once it is up
NextCore ==
    \/ RegisterSystemTopic
    \/ StartSystem
    \/ OneTagStep
    \/ mqtt_client_task_execute
    \/ mqtt_publish_topic
    \/ mqtt_event_connected
    \/ mqtt_event_disconnected
    \/ DataEvent
    \/ LinkUp
    \/ sntp_task_execute

SpecCore == Init /\ [][NextCore]_vars

(***************************************************************************)
(* The producers alone: the reader loop, the sensor loop and the inbound   *)
(* callback fill their queues while nothing is published                   *)
(***************************************************************************)
AnyMessages ==
    { [topic |-> ChannelOf(name).stored, payload |-> payload] :
        name \in {command_write_name, command_config_name},
        payload \in {WritePayload, ConfigPayload, GarbagePayload, EmptyPayload} }

InboundData == \E m \in AnyMessages : mqtt_event_data(m.topic, m.payload)

NextProducers ==
    \/ RegisterSystemTopic
    \/ StartSystem
    \/ OneTagStep
    \/ temperature_monitor_execute
    \/ InboundData

SpecProducers == Init /\ [][NextProducers]_vars

(***************************************************************************)
(* Routing: a start-up that registers topics of its choice in an order of  *)
(* its choice, then inbound messages                                       *)
(***************************************************************************)
write_name == <<"w","r","i","t","e">>

RoutingDefs ==
    { SystemTopics[1], SystemTopics[3], SystemTopics[4],
      [name |-> write_name, qos |-> 1, direction |-> SUBSCRIBE,
       type |-> DATA_STRUCT_COMMAND_CONFIG] }

RegisterRoutingTopic ==
    /\ initalized_mqtt_topics_count < MaxRoutingTopics
    /\ \E def \in RoutingDefs : Register(def, TRUE)

NextRouting ==
    \/ RegisterRoutingTopic
    \/ StartScheduler
    \/ InboundData

SpecRouting == Init /\ [][NextRouting]_vars

(***************************************************************************)
(* Registry claims                                                         *)
(***************************************************************************)
Called == last_call.calls > 0

LastCallValid ==
    ValidCall([name |-> last_call.name], last_call.queue_created)

\* C2: starting from an empty registry the first MQTT_MAXIMUM_TOPIC_COUNT
\* valid calls of mqtt_topic_initialize succeed, every later call returns an
\* error, and the count never exceeds MQTT_MAXIMUM_TOPIC_COUNT.
C2_FirstValidCallsSucceed ==
    /\ initalized_mqtt_topics_count <= MQTT_MAXIMUM_TOPIC_COUNT
    /\ (Called /\ LastCallValid
           /\ last_call.valid_before < MQTT_MAXIMUM_TOPIC_COUNT)
          => last_call.result = ESP_OK
    /\ (Called /\ last_call.valid_before >= MQTT_MAXIMUM_TOPIC_COUNT)
          => last_call.result /= ESP_OK

\* C3: every entry below initalized_mqtt_topics_count was registered
\* successfully (untruncated name, non-NULL queue, qos set), and a failed
\* call leaves the count unchanged.
C3_EntriesBelowCountRegistered ==
    /\ \A i \in TopicIndex :
          i < initalized_mqtt_topics_count =>
            /\ mqtt_topics[i].queue /= NULL
            /\ mqtt_topics[i].topic = registered_as[i].name
            /\ mqtt_topics[i].qos = registered_as[i].qos
    /\ (Called /\ last_call.result /= ESP_OK)
          => initalized_mqtt_topics_count = last_call.count_before

\* C4: while the registry has a free slot, a name of exactly
\* MQTT_MAXIMUM_TOPIC_LENTGH - 1 characters registers (given its queue is
\* created) and is stored unmodified, and a name of MQTT_MAXIMUM_TOPIC_LENTGH
\* characters or more is rejected with ESP_ERR_INVALID_ARG.
C4_NameLengthBoundary ==
    (Called /\ last_call.name /= NULL_NAME
       /\ last_call.count_before < MQTT_MAXIMUM_TOPIC_COUNT)
    => /\ (Len(last_call.name) = MQTT_MAXIMUM_TOPIC_LENTGH - 1
             /\ last_call.queue_created)
           => /\ last_call.result = ESP_OK
              /\ mqtt_topics[last_call.count_before].topic = last_call.name
       /\ Len(last_call.name) >= MQTT_MAXIMUM_TOPIC_LENTGH
           => last_call.result = ESP_ERR_INVALID_ARG

\* a 63-character name sits registered in a slot and the latest call, with a
\* 64-character name, was rejected
C4_Witness ==
    /\ last_call.name = NameOver
    /\ last_call.result = ESP_ERR_INVALID_ARG
    /\ \E i \in TopicIndex :
          /\ i < last_call.count_before
          /\ registered_as[i].name = NameMax
          /\ mqtt_topics[i].topic = NameMax
          /\ mqtt_topics[i].queue /= NULL

\* C5: no two registry entries hold the same name, because registering a
\* name that is already registered fails.
C5_NoDuplicateNames ==
    /\ \A i, j \in TopicIndex :
          (i < j /\ j < initalized_mqtt_topics_count)
            => mqtt_topics[i].topic /= mqtt_topics[j].topic
    /\ (Called /\ \E i \in TopicIndex :
                    /\ i < last_call.count_before
                    /\ mqtt_topics[i].topic = last_call.name)
          => last_call.result /= ESP_OK

(***************************************************************************)
(* Queue and routing claims                                                *)
(***************************************************************************)
Handles == 1..MQTT_MAXIMUM_TOPIC_COUNT

Registered(i) == i < initalized_mqtt_topics_count

\* C1: the record a dequeue returns equals, in every field, the record that
\* was enqueued into that slot.
C1_DequeueReturnsEnqueuedRecord ==
    last_receive.site /= "none" => last_receive.record = last_receive.sent

\* the indices whose topic the code matches against an inbound channel
Matching(topic) ==
    { i \in TopicIndex :
        /\ Registered(i)
        /\ mqtt_topics[i].queue /= NULL
        /\ mqtt_topics[i].direction = SUBSCRIBE
        /\ Contains(topic, mqtt_topics[i].topic) }

FirstMatching(topic) ==
    CHOOSE i \in Matching(topic) : \A j \in Matching(topic) : i <= j

\* what a payload decodes to as the record type of a type tag
Decoded(type, payload) ==
    IF type = DATA_STRUCT_COMMAND_WRITE
    THEN parse_json_command_write(payload)
    ELSE IF type = DATA_STRUCT_COMMAND_CONFIG
    THEN parse_json_command_config(payload)
    ELSE [ok |-> FALSE, record |-> <<>>]

\* the queue of slot i takes the record if it has space, and every other
\* queue stays as it is
EnqueuedOnlyInto(i, record) ==
    LET own == mqtt_topics[i].queue
    IN  /\ phase' = phase
        /\ \A h \in Handles : h /= own => queues'[h] = queues[h]
        /\ queues'[own] = IF Len(queues[own]) < MAX_QUEUE_SIZE
                          THEN Append(queues[own], Slot(ITEM_SIZE, record))
                          ELSE queues[own]

\* C6: an inbound message on the channel /titanium/<device-id>/<name> of a
\* registered SUBSCRIBE topic is routed to the topic registered under <name>
\* and to no other topic, whatever other names are registered.
C6_RoutedToNamedTopic ==
    [][\A i \in TopicIndex, payload \in {WritePayload, ConfigPayload} :
         ( /\ Registered(i)
           /\ mqtt_topics[i].queue /= NULL
           /\ mqtt_topics[i].direction = SUBSCRIBE
           /\ \A j \in TopicIndex :
                (Registered(j) /\ j /= i)
                  => mqtt_topics[j].topic /= mqtt_topics[i].topic
           /\ Decoded(mqtt_topics[i].type, payload).ok
           /\ mqtt_event_data(ChannelOf(mqtt_topics[i].topic).stored, payload) )
         => EnqueuedOnlyInto(i, payload.record)]_vars

\* C7: an inbound message whose channel contains the name of at least one
\* SUBSCRIBE topic and whose payload decodes enqueues exactly one record,
\* into the queue of the first matching SUBSCRIBE topic in registration
\* order when that queue has space, and into no other queue.
C7_OneRecordIntoFirstMatch ==
    [][\A m \in AnyMessages :
         ( /\ Matching(m.topic) /= {}
           /\ Decoded(mqtt_topics[FirstMatching(m.topic)].type, m.payload).ok
           /\ mqtt_event_data(m.topic, m.payload) )
         => EnqueuedOnlyInto(FirstMatching(m.topic), m.payload.record)]_vars

\* C8: an inbound message whose payload fails to decode enqueues no record
\* into any topic queue and leaves the engine running for the next message.
C8_DecodeFailureEnqueuesNothing ==
    [][\A m \in AnyMessages :
         ( /\ m.payload.kind = "garbage"
           /\ mqtt_event_data(m.topic, m.payload) )
         => (queues' = queues /\ phase' = phase)]_vars

\* C9: a bounded-wait enqueue that finds its queue full (reader loop, sensor
\* loop, inbound callback) gives the record up: the full queue keeps its
\* contents, the send reports failure, and the sending loop is back at the
\* top of its iteration, neither blocked nor stopped.
C9_FullQueueDropsRecord ==
    [][ /\ \A h \in Handles :
             Len(queues[h]) = MAX_QUEUE_SIZE => queues'[h] = queues[h]
        /\ Len(sensor_data_queue) = MAX_QUEUE_SIZE
             => sensor_data_queue' = sensor_data_queue
        /\ (phase = "running" /\ ~last_send'.passed)
             => /\ IF last_send'.site = "sensor"
                   THEN Len(sensor_data_queue) = MAX_QUEUE_SIZE
                   ELSE Len(queues[last_send'.handle]) = MAX_QUEUE_SIZE
                /\ phase' = "running"
                /\ app_pc' = "loop" ]_vars

\* the reader loop has just had a send refused by the full response_read
\* queue, while the sensor queue and the command_write queue are full too
C9_Witness ==
    /\ phase = "running"
    /\ last_send = [site |-> "application_read",
                    handle |-> HandleAt(DATA_STRUCT_RESPONSE_READ),
                    passed |-> FALSE]
    /\ Len(queues[HandleAt(DATA_STRUCT_RESPONSE_READ)]) = MAX_QUEUE_SIZE
    /\ Len(queues[HandleAt(DATA_STRUCT_COMMAND_WRITE)]) = MAX_QUEUE_SIZE
    /\ Len(sensor_data_queue) = MAX_QUEUE_SIZE

\* C10: in every reachable state every topic queue holds at most
\* MAX_QUEUE_SIZE records.
C10_QueueNeverOverCapacity ==
    \A h \in Handles : Len(queues[h]) <= MAX_QUEUE_SIZE

\* the response_read queue and both command queues are full while the engine
\* is in its outbound pass
C10_Witness ==
    /\ mqtt_pc = "publish"
    /\ Len(queues[HandleAt(DATA_STRUCT_RESPONSE_READ)]) = MAX_QUEUE_SIZE
    /\ Len(queues[HandleAt(DATA_STRUCT_COMMAND_WRITE)]) = MAX_QUEUE_SIZE
    /\ Len(queues[HandleAt(DATA_STRUCT_COMMAND_CONFIG)]) = MAX_QUEUE_SIZE

(***************************************************************************)
(* Any order: a start-up that registers the four topics once each in an    *)
(* order of its choice, then the firmware runs                             *)
(***************************************************************************)
RegisterInAnyOrder ==
    \E k \in 1..Len(SystemTopics) :
        /\ \A i \in TopicIndex :
              Registered(i) => mqtt_topics[i].topic /= SystemTopics[k].name
        /\ Register(SystemTopics[k], TRUE)

NextOrders ==
    \/ RegisterInAnyOrder
    \/ StartSystem
    \/ OneTagStep
    \/ mqtt_client_task_execute
    \/ mqtt_publish_topic
    \/ mqtt_event_connected
    \/ DataEvent
    \/ LinkUp
    \/ sntp_task_execute

SpecOrders == Init /\ [][NextOrders]_vars

(***************************************************************************)
(* The outbound path: the reader loop fills the response queues and the    *)
(* engine empties them while the connection comes and goes; the broker     *)
(* sends no commands                                                       *)
(***************************************************************************)
NextOutbound ==
    \/ RegisterSystemTopic
    \/ StartSystem
    \/ ApplicationStep
    \/ mqtt_client_task_execute
    \/ mqtt_publish_topic
    \/ mqtt_event_connected
    \/ mqtt_event_disconnected
    \/ LinkUp
    \/ LinkDown
    \/ sntp_task_execute

SpecOutbound == Init /\ [][NextOutbound]_vars

\* the outbound path while the link stays up once it is up
NextDispatch ==
    \/ RegisterSystemTopic
    \/ StartSystem
    \/ ApplicationStep
    \/ mqtt_client_task_execute
    \/ mqtt_publish_topic
    \/ mqtt_event_connected
    \/ LinkUp
    \/ sntp_task_execute

SpecDispatch == Init /\ [][NextDispatch]_vars

(***************************************************************************)
(* Dispatch claims                                                         *)
(***************************************************************************)
\* the topic the outbound pass is at
PublishTopic == mqtt_topics[publish_i]

\* C11: a topic queue changes only by losing its oldest record or by gaining
\* a record behind all others, and the record the outbound pass hands to the
\* transport is the oldest of its queue: records enqueued into one queue are
\* transmitted in the order of their enqueueing.
C11_FifoOrderPerTopic ==
    [][ /\ \A h \in Handles :
             \/ queues'[h] = queues[h]
             \/ /\ queues[h] /= <<>>
                /\ queues'[h] = Tail(queues[h])
                /\ last_receive'.handle = h
                /\ last_receive'.sent = Head(queues[h]).sent
             \/ /\ queues'[h] /= <<>>
                /\ queues'[h] = Append(queues[h], queues'[h][Len(queues'[h])])
        /\ (mqtt_publish_topic /\ CallsPublish(PublishTopic))
             => last_publish'.uid =
                  PRIu64(uuid_of(Head(queues[PublishTopic.queue]).sent)) ]_vars

\* the record with uid 2 was enqueued before one with the 17-digit uid and
\* has been transmitted while the later one is still waiting
C11_Witness ==
    /\ last_publish.uid = PRIu64(Uid2)
    /\ last_receive.site = "outbound"
    /\ uuid_of(last_receive.sent) = Uid2
    /\ queues[HandleAt(DATA_STRUCT_RESPONSE_READ)] /= <<>>
    /\ uuid_of(Head(queues[HandleAt(DATA_STRUCT_RESPONSE_READ)]).sent) = Uid1

\* C12: whatever the registration order, the outbound pass for a PUBLISH
\* topic changes only that topic's queue and the inbound pass changes only
\* the queues of the SUBSCRIBE topics its message matches; neither ends the
\* run on a queue that is not the topic's own.
C12_PassUsesOwnQueue ==
    [][ /\ \A m \in SystemMessages :
             mqtt_event_data(m.topic, m.payload)
               => /\ phase' = phase
                  /\ \A h \in Handles :
                        queues'[h] /= queues[h]
                          => \E i \in Matching(m.topic) :
                                mqtt_topics[i].queue = h
        /\ mqtt_publish_topic
             => /\ phase' = phase
                /\ \A h \in Handles :
                      queues'[h] /= queues[h] => h = PublishTopic.queue ]_vars

\* C13: every publish call and every subscribe call carries the qos the
\* topic was registered with.
C13_CallsCarryRegisteredQos ==
    \A i \in TopicIndex :
        Registered(i) =>
          /\ (last_publish /= NoPublish
                /\ last_publish.topic = mqtt_topics[i].topic)
               => last_publish.qos = mqtt_topics[i].qos
          /\ \A k \in 1..Len(last_subscribe) :
               last_subscribe[k].channel = ChannelOf(mqtt_topics[i].topic).stored
                 => last_subscribe[k].qos = mqtt_topics[i].qos

\* the record at the head of the queue of the topic the outbound pass is at,
\* as its producer enqueued it
Oldest == Head(queues[PublishTopic.queue]).sent

\* C14: an outbound pass that runs connected and time-synced and finds a
\* ReadResponse at the head of the response_read queue transmits a payload
\* on /titanium/<device-id>/response_read that carries the uid, sector, block
\* and 16-element data array of that record.
C14_ReadResponseTransmitted ==
    [][ ( /\ mqtt_publish_topic
          /\ is_mqtt_connected
          /\ "TIME_SYNCED" \in event_bits
          /\ PublishTopic.type = DATA_STRUCT_RESPONSE_READ
          /\ queues[PublishTopic.queue] /= <<>> )
        => /\ last_publish'.channel =
                 titanium \o unique_id \o <<"/">> \o response_read_name
           /\ last_publish'.uid = PRIu64(uuid_of(Oldest))
           /\ sector_of_response(last_publish'.record)
                 = sector_of_response(Oldest)
           /\ block_of_response(last_publish'.record)
                 = block_of_response(Oldest)
           /\ data_of_response_read(last_publish'.record)
                 = data_of_response_read(Oldest)
           /\ Len(data_of_response_read(last_publish'.record))
                 = MIFARE_BLOCK_SIZE ]_vars

\* the outbound pass is at a response topic whose oldest record has a uid of
\* more decimal digits than uuid_string holds
UidDoesNotFit ==
    /\ PublishTopic.type \in {DATA_STRUCT_RESPONSE_READ,
                              DATA_STRUCT_RESPONSE_WRITE}
    /\ PublishTopic.queue /= NULL
    /\ queues[PublishTopic.queue] /= <<>>
    /\ Len(PRIu64(uuid_of(Head(queues[PublishTopic.queue]).bytes)))
          >= UUID_STRING_SIZE

\* C15: when the serialization of a dequeued record fails, nothing is handed
\* to the transport, the record is gone from its queue and in no other queue,
\* and the outbound pass goes on with the next PUBLISH topic.
C15_SerializationFailureDropsRecord ==
    [][ (mqtt_publish_topic /\ UidDoesNotFit)
        => /\ last_publish' = last_publish
           /\ queues' = [queues EXCEPT ![PublishTopic.queue] = Tail(@)]
           /\ phase' = phase
           /\ IF NextPublish(publish_i + 1) < initalized_mqtt_topics_count
              THEN mqtt_pc' = "publish"
                   /\ publish_i' = NextPublish(publish_i + 1)
              ELSE mqtt_pc' = "tick" ]_vars

\* the record with the 17-digit uid was dequeued and dropped, nothing has
\* been transmitted, and the pass is at the response_write topic
C15_Witness ==
    /\ last_receive.site = "outbound"
    /\ uuid_of(last_receive.record) = Uid1
    /\ last_publish = NoPublish
    /\ queues[HandleAt(DATA_STRUCT_RESPONSE_READ)] = <<>>
    /\ mqtt_pc = "publish"
    /\ publish_i = DATA_STRUCT_RESPONSE_WRITE

\* C16: when esp_mqtt_client_publish fails for a record, the record has left
\* its queue and is in no queue, so no later tick hands it to the transport
\* again.
C16_TransportFailureLosesRecord ==
    [][ ( /\ mqtt_publish_topic
          /\ CallsPublish(PublishTopic)
          /\ ~last_publish'.msg_ok )
        => /\ queues'[PublishTopic.queue] = Tail(queues[PublishTopic.queue])
           /\ \A h \in Handles :
                 h /= PublishTopic.queue => queues'[h] = queues[h] ]_vars

\* the publish of the record with uid 2 failed, the pass is over and the
\* response_read queue is empty
C16_Witness ==
    /\ last_publish.uid = PRIu64(Uid2)
    /\ ~last_publish.msg_ok
    /\ mqtt_pc = "tick"
    /\ queues[HandleAt(DATA_STRUCT_RESPONSE_READ)] = <<>>

\* a step of mqtt_publish_topic: the outbound pass moves on from its topic
PublishStep ==
    /\ mqtt_pc = "publish"
    /\ <<mqtt_pc, publish_i>>' /= <<mqtt_pc, publish_i>>

\* the outbound pass is at a response topic whose queue holds a record
RecordWaits ==
    /\ PublishTopic.type \in {DATA_STRUCT_RESPONSE_READ,
                              DATA_STRUCT_RESPONSE_WRITE}
    /\ queues[PublishTopic.queue] /= <<>>

\* C17: every step that delivers a record to a consumer (the outbound pass,
\* the WRITE branch of the reader loop) removes that record from its queue,
\* a step removes at most one record from at most one queue, and a record is
\* handed to the transport only in a step that removes it.
C17_DequeuedAtMostOnce ==
    [][ /\ (PublishStep /\ RecordWaits)
           => queues'[PublishTopic.queue] = Tail(queues[PublishTopic.queue])
        /\ (app_pc = "loop" /\ app_pc' = "respond")
           => queues'[HandleAt(DATA_STRUCT_COMMAND_WRITE)]
                 = Tail(queues[HandleAt(DATA_STRUCT_COMMAND_WRITE)])
        /\ last_publish' /= last_publish
           => \E h \in Handles : queues'[h] = Tail(queues[h])
        /\ \A h \in Handles :
              Len(queues'[h]) < Len(queues[h])
                => /\ queues'[h] = Tail(queues[h])
                   /\ last_receive'.handle = h
                   /\ \A g \in Handles :
                         g /= h => Len(queues'[g]) >= Len(queues[g]) ]_vars

\* the engine transmitted the only response_read record, its queue is empty
\* again, and the command_write queue is full of records nobody took
C17_Witness ==
    /\ last_publish.uid = PRIu64(Uid2)
    /\ last_publish.msg_ok
    /\ last_receive.site = "outbound"
    /\ queues[HandleAt(DATA_STRUCT_RESPONSE_READ)] = <<>>
    /\ Len(queues[HandleAt(DATA_STRUCT_COMMAND_WRITE)]) = MAX_QUEUE_SIZE

\* the topic that owns queue handle h has one of the given names
OwnedBy(h, names) ==
    \E i \in TopicIndex :
        Registered(i) /\ mqtt_topics[i].queue = h /\ mqtt_topics[i].topic \in names

\* C18: a record leaves the response_read or response_write queue only in a
\* step of the dispatch engine and leaves the command_write or
\* command_config queue only in a step of the reader loop.
C18_OneConsumerPerQueue ==
    [][ \A h \in Handles :
          Len(queues'[h]) < Len(queues[h])
            => /\ OwnedBy(h, {response_read_name, response_write_name})
                    => /\ mqtt_pc = "publish"
                       /\ last_receive'.site = "outbound"
                       /\ UNCHANGED appVars
               /\ OwnedBy(h, {command_write_name, command_config_name})
                    => /\ last_receive'.site = "application_write"
                       /\ UNCHANGED mqttVars ]_vars

\* the engine took a record from the response_read queue while both command
\* queues are full
C18_Witness ==
    /\ last_receive.site = "outbound"
    /\ last_receive.handle = HandleAt(DATA_STRUCT_RESPONSE_READ)
    /\ Len(queues[HandleAt(DATA_STRUCT_COMMAND_WRITE)]) = MAX_QUEUE_SIZE
    /\ Len(queues[HandleAt(DATA_STRUCT_COMMAND_CONFIG)]) = MAX_QUEUE_SIZE

\* C19: at every call of esp_mqtt_client_publish the connected flag is true.
C19_PublishOnlyWhileConnected ==
    [][ (mqtt_publish_topic /\ CallsPublish(PublishTopic))
        => is_mqtt_connected ]_vars

\* C20: handling MQTT_EVENT_DISCONNECTED leaves the registry and every queue
\* as they are, and while the connected flag is false the queues of the
\* PUBLISH topics keep their records for the next connection.
C20_DisconnectPreservesQueues ==
    [][ /\ mqtt_event_disconnected
           => UNCHANGED <<mqtt_topics, initalized_mqtt_topics_count, queues>>
        /\ ~is_mqtt_connected
           => \A i \in TopicIndex :
                (Registered(i) /\ mqtt_topics[i].direction = PUBLISH)
                  => Len(queues'[mqtt_topics[i].queue])
                        >= Len(queues[mqtt_topics[i].queue]) ]_vars

(***************************************************************************)
(* Subscriptions: a start-up that registers, after the four topics, one    *)
(* more SUBSCRIBE topic whose name the registry accepts and whose channel  *)
(* does not fit the channel buffer                                         *)
(***************************************************************************)
\* the shortest name whose channel fills all CHANNEL_SIZE bytes
NameChannelOver == Chars(CHANNEL_SIZE - Len(titanium \o unique_id) - 1, "c")

SubscribeTopics ==
    SystemTopics \o
    << [name |-> NameChannelOver, qos |-> 1, direction |-> SUBSCRIBE,
        type |-> DATA_STRUCT_COMMAND_CONFIG] >>

RegisterSubscribeTopic ==
    /\ initalized_mqtt_topics_count < Len(SubscribeTopics)
    /\ Register(SubscribeTopics[initalized_mqtt_topics_count + 1], TRUE)

StartSubscribe ==
    /\ initalized_mqtt_topics_count = Len(SubscribeTopics)
    /\ StartScheduler

NextSubscribe ==
    \/ RegisterSubscribeTopic
    \/ StartSubscribe
    \/ OneTagStep
    \/ mqtt_client_task_execute
    \/ mqtt_publish_topic
    \/ mqtt_event_connected
    \/ mqtt_event_disconnected
    \/ DataEvent
    \/ LinkUp
    \/ LinkDown
    \/ sntp_task_execute

SpecSubscribe == Init /\ [][NextSubscribe]_vars

(***************************************************************************)
(* Engine claims                                                           *)
(***************************************************************************)
\* the channel of a topic name, in full
FullChannel(topic) == titanium \o unique_id \o <<"/">> \o topic

\* the number of subscribe calls in calls made for the channel of topic
SubscribeCalls(calls, topic) ==
    Cardinality({ k \in 1..Len(calls) : calls[k].channel = FullChannel(topic) })

\* C21: every MQTT_EVENT_CONNECTED, the first and every later one, issues
\* exactly one subscribe call for the channel of every registered SUBSCRIBE
\* topic and none for a PUBLISH topic.
C21_ConnectedSubscribesEverySubscribeTopic ==
    [][ mqtt_event_connected =>
          \A i \in TopicIndex :
             Registered(i) =>
               SubscribeCalls(last_subscribe', mqtt_topics[i].topic)
                 = IF mqtt_topics[i].direction = SUBSCRIBE THEN 1 ELSE 0 ]_vars

(***************************************************************************)
(* The engine loop: one card in front of the reader, and the link, the     *)
(* clock and the connection change at any time                             *)
(***************************************************************************)
NextEngine ==
    \/ RegisterSystemTopic
    \/ StartSystem
    \/ OneTagStep
    \/ mqtt_client_task_execute
    \/ mqtt_publish_topic
    \/ mqtt_event_connected
    \/ mqtt_event_disconnected
    \/ LinkUp
    \/ LinkDown
    \/ sntp_task_execute

SpecEngine == Init /\ [][NextEngine]_vars

\* the queue handles of the registered PUBLISH topics
PublishQueues ==
    { mqtt_topics[i].queue : i \in { j \in TopicIndex :
          /\ Registered(j)
          /\ mqtt_topics[j].direction = PUBLISH
          /\ mqtt_topics[j].queue /= NULL } }

\* every record of queue h is still in it, at the same place, after the step
StaysQueued(h) ==
    /\ Len(queues'[h]) >= Len(queues[h])
    /\ SubSeq(queues'[h], 1, Len(queues[h])) = queues[h]

\* C22: an iteration of the engine loop whose sample of the event bits lacks
\* TIME_SYNCED starts no outbound pass, dequeues nothing and transmits
\* nothing; a pass is only ever entered from a sample with TIME_SYNCED, and
\* outside a pass every record of a PUBLISH queue stays queued.
C22_NoPassWithoutTimeSync ==
    [][ /\ (mqtt_client_task_execute /\ "TIME_SYNCED" \notin event_bits)
            => /\ mqtt_pc' = "tick"
               /\ UNCHANGED <<queues, last_publish, last_receive>>
        /\ mqtt_pc' = "publish"
            => "TIME_SYNCED" \in last_tick'.firmware_event_bits
        /\ mqtt_pc = "tick"
            => /\ last_publish' = last_publish
               /\ \A h \in PublishQueues : StaysQueued(h) ]_vars

\* the loop ran while connected with the link up and the time not yet
\* synchronised, records were waiting, and none has been dequeued
C22_Witness ==
    /\ last_tick.connected
    /\ last_tick.pending
    /\ last_tick.firmware_event_bits = {"WIFI_CONNECTED_STA"}
    /\ mqtt_pc = "tick"
    /\ PendingRecords
    /\ last_receive = NoReceive

\* C23: the engine loop starts the client only in an iteration whose sample
\* has WIFI_CONNECTED_STA, enters an outbound pass only from such a sample,
\* and an iteration that finds the client connected and the link flag clear
\* stops the client and dequeues and transmits nothing.
C23_LinkFlagGatesEngine ==
    [][ /\ (client = "stopped" /\ client' = "connecting")
            => /\ last_tick'.branch = "start"
               /\ "WIFI_CONNECTED_STA" \in last_tick'.firmware_event_bits
        /\ mqtt_pc' = "publish"
            => "WIFI_CONNECTED_STA" \in last_tick'.firmware_event_bits
        /\ (mqtt_client_task_execute /\ is_mqtt_connected
              /\ "WIFI_CONNECTED_STA" \notin event_bits)
            => /\ client' = "stopped"
               /\ mqtt_pc' = "tick"
               /\ UNCHANGED <<queues, last_publish, last_receive>> ]_vars

\* the loop found the client connected, the time synchronised, records
\* waiting and the link flag clear, and stopped the client
C23_Witness ==
    /\ last_tick.branch = "stop"
    /\ last_tick.firmware_event_bits = {"TIME_SYNCED"}
    /\ last_tick.pending
    /\ client = "stopped"
    /\ mqtt_pc = "tick"
    /\ PendingRecords

(***************************************************************************)
(* The actuator: the broker's commands arrive in the command queues while  *)
(* the reader loop runs; the loop is a while (1) with a delay, so it keeps *)
(* taking iterations                                                       *)
(***************************************************************************)
CommandMessages ==
    { [topic |-> ChannelOf(command_write_name).stored, payload |-> WritePayload],
      [topic |-> ChannelOf(command_config_name).stored, payload |-> ConfigPayload] }

InboundCommand ==
    \E msg \in CommandMessages : mqtt_event_data(msg.topic, msg.payload)

NextActuator ==
    \/ RegisterSystemTopic
    \/ StartSystem
    \/ ApplicationStep
    \/ InboundCommand

SpecActuator == Init /\ [][NextActuator]_vars /\ WF_vars(ApplicationStep)

(***************************************************************************)
(* Actuator claims                                                         *)
(***************************************************************************)
\* the command_config records waiting in the queue of their topic
ConfigQueue == queues[HandleAt(DATA_STRUCT_COMMAND_CONFIG)]

ConfigWaiting ==
    /\ phase = "running"
    /\ HandleAt(DATA_STRUCT_COMMAND_CONFIG) /= NULL
    /\ ConfigQueue /= <<>>

\* C24: once a command_config record with mode WRITE is in the queue, the
\* actuator loop eventually dequeues it and is in WRITE mode.
C24_WriteModeEventuallyAdopted ==
    (ConfigWaiting /\ mode_of(Head(ConfigQueue).bytes) = WRITE)
      ~> (mode_of(command_config) = WRITE)

\* C25: once a command_config record with sector s and block b is in the
\* queue, the actuator loop eventually has s and b as its target.
C25_TargetEventuallyAdopted ==
    (ConfigWaiting /\ Head(ConfigQueue).bytes = ConfigCommand1)
      ~> /\ sector_of_command(command_config)
              = sector_of_command(ConfigCommand1)
         /\ block_of_command(command_config)
              = block_of_command(ConfigCommand1)

ReadStep(tag, auth_ok, read_ok, card_data) ==
    /\ phase = "running"
    /\ app_pc = "loop"
    /\ mode_of(command_config) = READ
    /\ \E store \in StoreTargets \cup {"inside"} :
          ReadIteration(tag, auth_ok, read_ok, card_data, store)

\* the newest record of queue h after the step, as a receiver gets it
NewestRecord(h) ==
    xQueueReceive(queues'[h][Len(queues'[h])], Zeros(SIZEOF_RESPONSE_READ))

\* C28: in READ mode an iteration enqueues a ReadResponse only if a tag was
\* detected and read_sector returned ESP_OK, and the enqueued record carries
\* the active sector and block and the uid of the detected tag; an iteration
\* with no tag or a failed read enqueues nothing; no command_write record
\* leaves its queue while the loop is in READ mode.
C28_ReadResponseOnlyAfterSuccessfulRead ==
    [][ /\ \A tag \in Tags \cup {NoTag}, auth_ok \in BOOLEAN,
              read_ok \in BOOLEAN, card_data \in CardData :
             ReadStep(tag, auth_ok, read_ok, card_data) =>
               LET h == HandleAt(DATA_STRUCT_RESPONSE_READ)
                   sector == sector_of_command(command_config)
                   block == block_of_command(command_config)
                   ok == /\ tag /= NoTag
                         /\ read_sector(sector, block, MIFARE_BLOCK_SIZE,
                                        auth_ok, read_ok).result = ESP_OK
               IN  IF ok /\ Len(queues[h]) < MAX_QUEUE_SIZE
                   THEN /\ Len(queues'[h]) = Len(queues[h]) + 1
                        /\ uuid_of(NewestRecord(h)) = tag
                        /\ sector_of_response(NewestRecord(h)) = sector
                        /\ block_of_response(NewestRecord(h)) = block
                   ELSE queues' = queues
        /\ (phase = "running" /\ mode_of(command_config) = READ)
             => StaysQueued(HandleAt(DATA_STRUCT_COMMAND_WRITE)) ]_vars

(***************************************************************************)
(* A sensor topic: a start-up that registers, after the four topics, a     *)
(* PUBLISH topic for SensorReading records, and a producer that enqueues   *)
(* readings into its queue; no card is presented, the link comes up and    *)
(* stays up, and the engine loop keeps taking iterations                   *)
(***************************************************************************)
\* the type tag of a SensorReading topic: a value other than the four tags
\* the code names
DATA_STRUCT_SENSOR == 4

temperature_name == <<"t","e","m","p","e","r","a","t","u","r","e">>

SensorTopics ==
    SystemTopics \o
    << [name |-> temperature_name, qos |-> 1, direction |-> PUBLISH,
        type |-> DATA_STRUCT_SENSOR] >>

RegisterSensorTopic ==
    /\ initalized_mqtt_topics_count < Len(SensorTopics)
    /\ Register(SensorTopics[initalized_mqtt_topics_count + 1], TRUE)

StartSensor ==
    /\ initalized_mqtt_topics_count = Len(SensorTopics)
    /\ StartScheduler

\* a generic_sensor_data_st: the type discriminant and the value
SensorReadings == { <<0, 0, 0, 0, 21, 0, 0, 0>>, <<0, 0, 0, 0, 22, 0, 0, 0>> }

\* the producer of the sensor topic sends a reading to the queue of the topic
SensorPublish ==
    /\ phase = "running"
    /\ \E reading \in SensorReadings :
         SendTo("sensor_topic", HandleAt(DATA_STRUCT_SENSOR), reading)
    /\ UNCHANGED <<regVars, sensor_data_queue, appVars, last_receive,
                   mqttVars, envVars>>

NextSensor ==
    \/ RegisterSensorTopic
    \/ StartSensor
    \/ SensorPublish
    \/ mqtt_client_task_execute
    \/ mqtt_publish_topic
    \/ mqtt_event_connected
    \/ LinkUp
    \/ sntp_task_execute

SpecSensor ==
    /\ Init /\ [][NextSensor]_vars
    /\ WF_vars(mqtt_client_task_execute)
    /\ WF_vars(mqtt_publish_topic)

\* the conditions under which the engine runs its outbound pass
Publishing ==
    /\ phase = "running"
    /\ is_mqtt_connected
    /\ {"WIFI_CONNECTED_STA", "TIME_SYNCED"} \subseteq event_bits

\* C29: while the client stays connected, the link flag set and the time
\* synchronised, a record waiting in the queue of a registered PUBLISH topic
\* of any type tag is eventually dequeued: in a run in which these conditions
\* hold from some point on, a queue that holds a record again and again has
\* records taken out of it again and again (the oldest first, so every
\* record gets its turn).
C29_EveryPublishQueueEventuallyDequeued ==
    \A h \in { QueueHandle(k - 1) : k \in { n \in 1..Len(SensorTopics) :
                                   SensorTopics[n].direction = PUBLISH } } :
       \/ []<> ~Publishing
       \/ <>[] ~(h \in PublishQueues /\ queues[h] /= <<>>)
       \/ []<> <<Len(queues'[h]) < Len(queues[h])>>_vars

(***************************************************************************)
(* Passes without interference: the reader loop enqueues only between two  *)
(* outbound passes, so the records a queue holds during a pass are the     *)
(* ones it held when the pass began                                        *)
(***************************************************************************)
ReaderBetweenPasses ==
    /\ mqtt_pc = "tick"
    /\ ApplicationStep

NextDrain ==
    \/ RegisterSystemTopic
    \/ StartSystem
    \/ ReaderBetweenPasses
    \/ mqtt_client_task_execute
    \/ mqtt_publish_topic
    \/ mqtt_event_connected
    \/ LinkUp
    \/ sntp_task_execute

SpecDrain == Init /\ [][NextDrain]_vars

\* C30: one outbound pass takes out of every PUBLISH queue every record the
\* queue held when the pass began: with nothing enqueued during the pass,
\* every PUBLISH queue is empty at the step that ends the pass.
C30_PassDrainsEveryPublishQueue ==
    [][ (mqtt_pc = "publish" /\ mqtt_pc' = "tick")
          => \A h \in PublishQueues : queues'[h] = <<>> ]_vars


(***************************************************************************)
(* A registry with two PUBLISH topics that carry the RESPONSE_READ tag:    *)
(* both are served from the queue at index DATA_STRUCT_RESPONSE_READ, so   *)
(* one pass can transmit for both                                          *)
(***************************************************************************)
mirror_name == <<"m","i","r","r","o","r">>

PassTopics ==
    << [name |-> response_read_name, qos |-> 0, direction |-> PUBLISH,
        type |-> DATA_STRUCT_RESPONSE_READ],
       [name |-> command_config_name, qos |-> 1, direction |-> SUBSCRIBE,
        type |-> DATA_STRUCT_COMMAND_CONFIG],
       [name |-> mirror_name, qos |-> 0, direction |-> PUBLISH,
        type |-> DATA_STRUCT_RESPONSE_READ] >>

RegisterPassTopic ==
    /\ initalized_mqtt_topics_count < Len(PassTopics)
    /\ Register(PassTopics[initalized_mqtt_topics_count + 1], TRUE)

StartPass ==
    /\ initalized_mqtt_topics_count = Len(PassTopics)
    /\ StartScheduler

NextPass ==
    \/ RegisterPassTopic
    \/ StartPass
    \/ OneTagStep
    \/ mqtt_client_task_execute
    \/ mqtt_publish_topic
    \/ mqtt_event_connected
    \/ LinkUp
    \/ sntp_task_execute

SpecPass == Init /\ [][NextPass]_vars

\* C31: within one outbound pass the PUBLISH topics are visited in
\* registration order: the indices the pass has transmitted for are in
\* ascending order, all of them lie before the index the pass is at, and
\* each transmission is made on the channel of the topic the pass is at.
C31_PassInRegistrationOrder ==
    /\ \A a, b \in 1..Len(last_tick.transmitted) :
          a < b => last_tick.transmitted[a] < last_tick.transmitted[b]
    /\ mqtt_pc = "publish"
          => \A a \in 1..Len(last_tick.transmitted) :
                last_tick.transmitted[a] < publish_i
    /\ last_tick.transmitted /= <<>>
          => last_publish.topic =
                mqtt_topics[last_tick.transmitted[
                               Len(last_tick.transmitted)]].topic

\* one pass has transmitted for response_read and then for mirror
C31_Witness ==
    /\ last_tick.transmitted = <<0, 2>>
    /\ last_publish.topic = mirror_name
    /\ mqtt_topics[0].topic = response_read_name


(***************************************************************************)
(* A registry whose names are accepted by mqtt_topic_initialize and are    *)
(* longer than the room the channel buffer leaves for a name               *)
(***************************************************************************)
ChannelTopics ==
    << [name |-> NameMax, qos |-> 0, direction |-> PUBLISH,
        type |-> DATA_STRUCT_RESPONSE_READ],
       [name |-> NameChannelOver, qos |-> 1, direction |-> SUBSCRIBE,
        type |-> DATA_STRUCT_COMMAND_CONFIG] >>

RegisterChannelTopic ==
    /\ initalized_mqtt_topics_count < Len(ChannelTopics)
    /\ Register(ChannelTopics[initalized_mqtt_topics_count + 1], TRUE)

StartChannel ==
    /\ initalized_mqtt_topics_count = Len(ChannelTopics)
    /\ StartScheduler

NextChannel ==
    \/ RegisterChannelTopic
    \/ StartChannel
    \/ OneTagStep
    \/ mqtt_client_task_execute
    \/ mqtt_publish_topic
    \/ mqtt_event_connected
    \/ mqtt_event_disconnected
    \/ LinkUp
    \/ sntp_task_execute

SpecChannel == Init /\ [][NextChannel]_vars

\* C32: every topic that registered can be used on the transport: a record
\* the outbound pass dequeues for a registered topic and serializes is handed
\* to publish on the full channel /titanium/<device-id>/<name>, and a
\* CONNECTED event subscribes to the full channel of every registered
\* SUBSCRIBE topic.
C32_RegisteredTopicReachesTransport ==
    [][ /\ (PublishStep /\ Formatted(PublishTopic).result = ESP_OK)
           => /\ last_tick'.transmitted
                    = Append(last_tick.transmitted, publish_i)
              /\ last_publish'.topic = PublishTopic.topic
              /\ last_publish'.channel = FullChannel(PublishTopic.topic)
        /\ mqtt_event_connected
           => \A i \in TopicIndex :
                 (Registered(i) /\ mqtt_topics[i].direction = SUBSCRIBE
                                /\ mqtt_topics[i].queue /= NULL)
                    => SubscribeCalls(last_subscribe', mqtt_topics[i].topic)
                          >= 1 ]_vars


(***************************************************************************)
(* The registry after start-up                                             *)
(***************************************************************************)
\* C33: no operation after start-up alters the registry: every step taken
\* once the tasks run leaves initalized_mqtt_topics_count and the name,
\* direction, type tag, qos and queue handle of every entry unchanged.
C33_RegistryFrozenAfterStartup ==
    [][ phase /= "startup"
          => /\ initalized_mqtt_topics_count' = initalized_mqtt_topics_count
             /\ \A i \in TopicIndex :
                   /\ mqtt_topics'[i].topic = mqtt_topics[i].topic
                   /\ mqtt_topics'[i].direction = mqtt_topics[i].direction
                   /\ mqtt_topics'[i].type = mqtt_topics[i].type
                   /\ mqtt_topics'[i].qos = mqtt_topics[i].qos
                   /\ mqtt_topics'[i].queue = mqtt_topics[i].queue ]_vars

\* the tasks run on the four registered topics: a record was transmitted, a
\* command was routed, and the connection was lost after its subscribe pass
C33_Witness ==
    /\ phase = "running"
    /\ initalized_mqtt_topics_count = Len(SystemTopics)
    /\ last_publish /= NoPublish
    /\ queues[HandleAt(DATA_STRUCT_COMMAND_CONFIG)] /= <<>>
    /\ last_subscribe /= <<>>
    /\ ~is_mqtt_connected


EntryNullConfig == "entry: global_config == NULL"
EntryNullGroup == "entry: firmware_event_group == NULL"
EntryConfig == "entry: global_config"

EntryParameters == {EntryNullConfig, EntryNullGroup, EntryConfig}

\* the outcomes of the read global_config->firmware_event_group through a
\* NULL global_config: the load faults, or it yields NULL and the task is
\* deleted, or it yields another value and, the test global_config == NULL
\* after a dereference being removable by the compiler, the loop is entered
NullReadOutcomes == {"fault", "deleted", "loop on NULL"}

\* the position of the task after the test at its entry
\*   init_ok: mqtt_client_task_initialize() returned ESP_OK
TaskEntryOutcomes(pvParameters, init_ok) ==
    IF ~init_ok THEN {"deleted"}
    ELSE IF pvParameters = EntryNullConfig THEN NullReadOutcomes
    ELSE IF pvParameters = EntryNullGroup THEN {"deleted"}
    ELSE {"tick"}

\* app_main creates the tasks; the engine task gets pvParameters
CreateEngineTask ==
    /\ phase = "startup"
    /\ initalized_mqtt_topics_count = Len(SystemTopics)
    /\ phase' = "running"
    /\ \E pvParameters \in EntryParameters : mqtt_pc' = pvParameters
    /\ UNCHANGED <<regVars, queues, sensor_data_queue, appVars, last_send,
                   last_receive, is_mqtt_connected, publish_i, last_publish,
                   last_subscribe, last_tick, envVars>>

\* mqtt_client_task_execute from its first line to the entry of while (1)
mqtt_client_task_entry ==
    /\ phase = "running"
    /\ mqtt_pc \in EntryParameters
    /\ \E init_ok \in BOOLEAN :
          mqtt_pc' \in TaskEntryOutcomes(mqtt_pc, init_ok)
    /\ UNCHANGED <<regVars, queues, phase, sensor_data_queue, appVars,
                   last_send, last_receive, is_mqtt_connected, publish_i,
                   last_publish, last_subscribe, last_tick, envVars>>

NextEntry ==
    \/ RegisterSystemTopic
    \/ CreateEngineTask
    \/ mqtt_client_task_entry
    \/ OneTagStep
    \/ mqtt_client_task_execute
    \/ mqtt_publish_topic
    \/ mqtt_event_connected
    \/ LinkUp
    \/ LinkDown
    \/ sntp_task_execute

SpecEntry == Init /\ [][NextEntry]_vars

\* C35: mqtt_client_task_execute started with a NULL configuration pointer,
\* or with a configuration whose event group is NULL, ends its task after
\* the error log: it reads nothing through the NULL pointer and never enters
\* the dispatch loop.
C35_NullConfigurationEndsTask ==
    [][ (mqtt_pc \in {EntryNullConfig, EntryNullGroup})
          => mqtt_pc' \in {mqtt_pc, "deleted"} ]_vars


(***************************************************************************)
(* The engine loop with a transport that reports a lost connection and     *)
(* reports nothing for a stop the engine asked for; the broker sends       *)
(* commands; the loop runs once per second for ever, and a started client  *)
(* connects                                                                *)
(***************************************************************************)
ConnectionLost ==
    /\ client = "connected"
    /\ mqtt_event_disconnected

NextRestart ==
    \/ RegisterSystemTopic
    \/ StartSystem
    \/ mqtt_client_task_execute
    \/ mqtt_publish_topic
    \/ mqtt_event_connected
    \/ ConnectionLost
    \/ DataEvent
    \/ LinkUp
    \/ LinkDown
    \/ sntp_task_execute

SpecRestart ==
    /\ Init
    /\ [][NextRestart]_vars
    /\ WF_vars(mqtt_client_task_execute)
    /\ WF_vars(mqtt_publish_topic)
    /\ WF_vars(mqtt_event_connected)

\* C36: whenever the engine has called stop_mqtt_client because the link
\* flag dropped, and the link flag later becomes set and stays set, the
\* engine eventually calls start_mqtt_client again; this holds when the
\* transport delivers no DISCONNECTED event for the stop.
C36_RestartAfterStop ==
    <>[]("WIFI_CONNECTED_STA" \in event_bits)
       => ((last_tick.branch = "stop") ~> (last_tick.branch = "start"))


\* C37: between a disconnected state and the following CONNECTED event the
\* engine calls start_mqtt_client at most once: an iteration that follows an
\* iteration which called start_mqtt_client, with no CONNECTED event so far,
\* does not call it again.
C37_StartedOnceWhileConnecting ==
    [][ ( /\ mqtt_client_task_execute
          /\ last_tick.branch = "start"
          /\ client = "connecting"
          /\ last_subscribe = <<>> )
        => last_tick'.branch /= "start" ]_vars


(***************************************************************************)
(* Start-up registers the first topics of the system list, any number of   *)
(* them, and then the tasks run                                            *)
(***************************************************************************)
StartWithAnyCount ==
    /\ initalized_mqtt_topics_count <= Len(SystemTopics)
    /\ StartScheduler

NextAnyCount ==
    \/ RegisterSystemTopic
    \/ StartWithAnyCount
    \/ OneTagStep
    \/ mqtt_client_task_execute
    \/ mqtt_publish_topic
    \/ mqtt_event_connected
    \/ DataEvent
    \/ LinkUp
    \/ sntp_task_execute

SpecAnyCount == Init /\ [][NextAnyCount]_vars

\* the handle belongs to a registered entry whose queue was created
CreatedQueue(handle) ==
    /\ handle /= NULL
    /\ \E i \in TopicIndex : Registered(i) /\ mqtt_topics[i].queue = handle

\* C38: no queue send or receive is performed on a NULL or never-created
\* handle: no task ends on a NULL handle, and the queue of the latest send
\* and of the latest receive on a topic queue belongs to a registered entry
\* whose queue was created.
C38_QueueOperationsOnCreatedQueues ==
    /\ phase /= "aborted"
    /\ last_send.site \notin {"none", "sensor"} => CreatedQueue(last_send.handle)
    /\ last_receive.site /= "none" => CreatedQueue(last_receive.handle)


(***************************************************************************)
(* read_sector and write_sector on their own: one call with any sector an  *)
(* 8-bit argument can carry, any block, and buffers of several lengths     *)
(***************************************************************************)
Sectors == 0..255

Blocks == 0..MIFARE_DATA_BLOCKS_PER_SECTOR

\* read_data_len of a caller: too short, one block, one sector's data blocks
ReadLengths == {MIFARE_BLOCK_SIZE - 1, MIFARE_BLOCK_SIZE,
                MIFARE_DATA_BLOCKS_PER_SECTOR * MIFARE_BLOCK_SIZE}

ReadSectorCall ==
    /\ last_access = NoAccess
    /\ \E sector \in Sectors, block \in Blocks, read_data_len \in ReadLengths,
          auth_ok \in BOOLEAN, read_ok \in BOOLEAN :
         LET r == read_sector(sector, block, read_data_len, auth_ok, read_ok)
         IN  /\ r.accessed
             /\ last_access' = AccessOf("read", sector, block,
                                        read_data_len, r)
    /\ UNCHANGED <<regVars, queues, phase, sensor_data_queue, command_config,
                   command_write, response_read, response_write, uid, app_pc,
                   last_send, last_receive, mqttVars, envVars>>

\* write_sector takes no length: data is the 16-byte field of a WriteCommand
WriteSectorCall ==
    /\ last_access = NoAccess
    /\ \E sector \in Sectors, block \in Blocks,
          auth_ok \in BOOLEAN, write_ok \in BOOLEAN :
         LET w == write_sector(sector, block, auth_ok, write_ok)
         IN  /\ w.accessed
             /\ last_access' = AccessOf("write", sector, block,
                                        MIFARE_BLOCK_SIZE, w)
    /\ UNCHANGED <<regVars, queues, phase, sensor_data_queue, command_config,
                   command_write, response_read, response_write, uid, app_pc,
                   last_send, last_receive, mqttVars, envVars>>

NextSector ==
    \/ ReadSectorCall
    \/ WriteSectorCall

SpecSector == Init /\ [][NextSector]_vars

\* C39: every data-block access of read_sector and write_sector stays inside
\* the caller's buffer: the 16 bytes read or written start at an offset o
\* with o + 16 <= the length of the buffer.
C39_AccessInsideBuffer ==
    last_access.op /= "none"
       => last_access.offset + MIFARE_BLOCK_SIZE <= last_access.buffer_len

\* C40: for every sector 0..255 and every block 0..2 the card block that
\* read_sector and write_sector access is block sector * 4 + block, and the
\* block they authenticate is the trailer of that sector.
C40_BlockOfRequestedSector ==
    last_access.op /= "none"
       => /\ last_access.block_index
               = last_access.sector * 4 + last_access.block
          /\ last_access.auth_block
               = last_access.sector * 4 + MIFARE_TRAILER_BLOCK

====
